---- MODULE Spec2Model ----
(***************************************************************************)
(* weframe: the collaborative video-timeline core.                         *)
(*                                                                         *)
(*   weframe-shared/src/lib.rs   VideoProject, EditOperation, OTOperation, *)
(*                               apply_operation, transform_operation      *)
(*   weframe-server/src/lib.rs   SessionManager, VideoSession,             *)
(*                               handle_websocket (one task per socket),   *)
(*                               the hourly sweeper of run_server          *)
(*   weframe-client/src/lib.rs   WeframeClient: the replica in the browser *)
(*                                                                         *)
(* Durations are natural numbers (whole seconds).  std::time::Duration     *)
(* panics when a subtraction would go below zero; the operators named      *)
(* *_panics say when the code panics, and the actions take the panic       *)
(* branch (the server task or the browser closure dies) in that case.      *)
(***************************************************************************)
EXTENDS Integers, Sequences, FiniteSets, TLC

(***************************************************************************)
(* Bounds of the model.                                                    *)
(***************************************************************************)
MaxTime == 1        \* start/end times are drawn from 0..MaxTime
MaxTrack == 1       \* tracks are drawn from 0..MaxTrack
MaxIntents == 2     \* frames sent upstream (intents, pings) over all clients
MaxTicks == 2       \* advances of the clock

(***************************************************************************)
(* Program constants.                                                      *)
(***************************************************************************)
IdleHours == 24     \* Duration::from_secs(24 * 60 * 60), in hours
SweepHours == 1     \* the sweeper sleeps Duration::from_secs(3600), in hours

Clients == {"a", "b"}          \* client_id given to WeframeClient::new
Times == 0..MaxTime
Tracks == 0..MaxTrack
SeedClipId == MaxIntents + 1   \* the id of a clip added before the history starts
ClipIds == 1..SeedClipId       \* "clip-<uuid>": one fresh id per intent
EffectTypes == {"Brightness", "Contrast"}
None == [none |-> TRUE]

\* String order on the client ids ("a" < "b"), as `<` on String compares them.
Rank(id) == CASE id = "a" -> 1 [] id = "b" -> 2 [] OTHER -> 3
IdLess(x, y) == Rank(x) < Rank(y)

\* format!("user-{}", random::<u32>()): the id the server gives a connection.
UserId(c) == IF c = "a" THEN "user-1" ELSE "user-2"
ConnOf(uid) == CHOOSE c \in Clients : UserId(c) = uid

Max(x, y) == IF x >= y THEN x ELSE y
Min(x, y) == IF x <= y THEN x ELSE y

(***************************************************************************)
(* weframe-shared: the document model.                                     *)
(***************************************************************************)
Collaborator(id) == [id |-> id, cursor_position |-> [track |-> 0, time |-> 0]]

VideoClip(id, start, end, track) ==
    [id |-> id, start_time |-> start, end_time |-> end, track |-> track,
     effects |-> <<>>, transition |-> None]

\* VideoProject::new(id, name, owner_id, owner_name): an empty timeline owned
\* by one collaborator.
NewProject(owner) ==
    [clips |-> <<>>, duration |-> 0, collaborators |-> <<Collaborator(owner)>>]

\* Effect::new(effect_type, value): a fresh effect of the given type.
NewEffect(id, effect_type) == [id |-> id, effect_type |-> effect_type]

\* iter().position(|c| c.id == id): index of the first match, 0 when none.
Position(seq, id) ==
    IF \E i \in 1..Len(seq) : seq[i].id = id
    THEN CHOOSE i \in 1..Len(seq) :
            /\ seq[i].id = id
            /\ \A j \in 1..(i - 1) : seq[j].id # id
    ELSE 0

HasClip(p, id) == Position(p.clips, id) # 0
Clip(p, id) == p.clips[Position(p.clips, id)]

RemoveAt(seq, i) == SubSeq(seq, 1, i - 1) \o SubSeq(seq, i + 1, Len(seq))

\* `clip.end_time - clip.start_time` on Duration panics below zero.
apply_panics(p, op) ==
    /\ op.kind = "MoveClip"
    /\ HasClip(p, op.id)
    /\ Clip(p, op.id).end_time < Clip(p, op.id).start_time

MoveClipped(clip, op) ==
    [clip EXCEPT !.start_time = op.new_start_time,
                 !.end_time = op.new_start_time + (clip.end_time - clip.start_time),
                 !.track = op.new_track]

\* VideoProject::apply_operation(&mut self, op: &EditOperation)
apply_operation(p, op) ==
    LET i == IF op.kind \in {"MoveClip", "TrimClip"} THEN Position(p.clips, op.id)
             ELSE IF op.kind \in {"AddEffect", "RemoveEffect", "AddTransition",
                                  "RemoveTransition"}
                  THEN Position(p.clips, op.clip_id)
                  ELSE 0
    IN CASE op.kind = "AddClip" ->
              [p EXCEPT !.clips = Append(@, op.clip)]
         [] op.kind = "RemoveClip" ->
              [p EXCEPT !.clips = SelectSeq(@, LAMBDA c : c.id # op.id)]
         [] op.kind = "MoveClip" ->
              IF i = 0 \/ apply_panics(p, op) THEN p
              ELSE [p EXCEPT !.clips[i] = MoveClipped(@, op)]
         [] op.kind = "TrimClip" ->
              IF i = 0 THEN p
              ELSE [p EXCEPT !.clips[i].start_time = op.new_start_time,
                             !.clips[i].end_time = op.new_end_time]
         [] op.kind = "AddEffect" ->
              IF i = 0 THEN p
              ELSE [p EXCEPT !.clips[i].effects = Append(@, op.effect)]
         [] op.kind = "RemoveEffect" ->
              IF i = 0 THEN p
              ELSE [p EXCEPT !.clips[i].effects =
                                SelectSeq(@, LAMBDA e : e.id # op.effect_id)]
         [] op.kind = "AddTransition" ->
              IF i = 0 THEN p
              ELSE [p EXCEPT !.clips[i].transition = op.transition]
         [] op.kind = "RemoveTransition" ->
              IF i = 0 THEN p
              ELSE [p EXCEPT !.clips[i].transition = None]
         [] op.kind = "SetProjectDuration" ->
              [p EXCEPT !.duration = op.duration]
         [] op.kind = "UpdateCollaboratorCursor" ->
              LET k == Position(p.collaborators, op.collaborator_id)
              IN IF k = 0 THEN p
                 ELSE [p EXCEPT !.collaborators[k].cursor_position = op.new_position]

OTOperation(client_id, client_version, server_version, operation) ==
    [client_id |-> client_id, client_version |-> client_version,
     server_version |-> server_version, operation |-> operation]

\* `client_clip.start_time + server_clip.end_time - server_clip.start_time`
\* is evaluated left to right on Duration and panics below zero.
transform_panics(server_op, client_op) ==
    /\ server_op.operation.kind = "AddClip"
    /\ client_op.operation.kind = "AddClip"
    /\ IdLess(server_op.client_id, client_op.client_id)
    /\ client_op.operation.clip.start_time + server_op.operation.clip.end_time
          < server_op.operation.clip.start_time

\* VideoProject::transform_operation(&self, server_op, client_op) -> OTOperation
transform_operation(server_op, client_op) ==
    LET so == server_op.operation
        co == client_op.operation
    IN CASE so.kind = "AddClip" /\ co.kind = "AddClip" ->
              IF IdLess(server_op.client_id, client_op.client_id)
              THEN OTOperation(client_op.client_id, client_op.client_version,
                       server_op.server_version + 1,
                       [kind |-> "AddClip",
                        clip |-> [co.clip EXCEPT !.start_time =
                            (co.clip.start_time + so.clip.end_time)
                                - so.clip.start_time]])
              ELSE client_op
         [] so.kind = "RemoveClip" /\ co.kind = "RemoveClip" ->
              IF so.id = co.id
              THEN OTOperation(client_op.client_id, client_op.client_version,
                       server_op.server_version,
                       [kind |-> "RemoveClip", id |-> co.id])
              ELSE client_op
         [] so.kind = "MoveClip" /\ co.kind = "MoveClip" ->
              IF so.id = co.id THEN server_op ELSE client_op
         [] so.kind = "TrimClip" /\ co.kind = "TrimClip" ->
              IF so.id = co.id
              THEN OTOperation(client_op.client_id, client_op.client_version,
                       server_op.server_version,
                       [kind |-> "TrimClip", id |-> co.id,
                        new_start_time |-> Max(so.new_start_time, co.new_start_time),
                        new_end_time |-> Min(so.new_end_time, co.new_end_time)])
              ELSE client_op
         [] so.kind = "SetProjectDuration" /\ co.kind = "SetProjectDuration" ->
              server_op
         [] OTHER -> client_op

\* The two-argument call of handle_websocket,
\* `session.project.transform_operation(&client_op, session.server_version)`:
\* the session keeps no committed operations to transform against, so the
\* client's edit is returned in an envelope that carries the caller-supplied
\* server version.
transform_with_version(client_op, server_version) ==
    [client_op EXCEPT !.server_version = server_version]

(***************************************************************************)
(* State.                                                                  *)
(***************************************************************************)
VARIABLES
    sessions,   \* SessionManager.sessions: the room ids that have a session
    session,    \* the VideoSession of the room: project, clients,
                \* server_version, last_activity
    sweeper,    \* the cleanup task of run_server: "sleeping" or "panicked"
    swept,      \* history: the clock at the last sweep, -1 before the first
    created,    \* history: how many VideoSessions have been constructed
    arc,        \* per connection: the VideoSession its `session` handle points
                \* to, by order of construction; 0 before it has one
    manager_lock,   \* who holds the write guard of the manager's RwLock:
                    \* "sweeper", a connection, or "free"
    session_lock,   \* which connection holds the write guard of the session's
                    \* RwLock, or "free"
    engine,     \* the OT engine called on its own: its inputs, its result and
                \* the project they are applied to; idle in a running server
    now,        \* SystemTime::now(), in hours
    ticks,      \* how often the clock has advanced
    pc,         \* per connection: where its handle_websocket task stands
    inbox,      \* per connection: frames sent by the browser, not yet read
    chan,       \* per connection: client_receiver (mpsc), ServerMessages
    bcast,      \* per connection: broadcast_rx, committed OTOperations
    wire,       \* per connection: ClientOperation frames written to
                \* ws_sender, not yet handled by the browser's onmessage
    replica,    \* per client: WeframeClient (project, client_version, alive)
    intents,    \* history: the local intents issued, in order
    log,        \* history: the operations committed by the session, in order
    rcvd,       \* history: per client, the ClientOperations it has handled
    frames      \* history: number of Ping / unparsable frames sent

vars == <<sessions, session, sweeper, swept, created, arc, manager_lock, session_lock,
          engine, now, ticks, pc, inbox, chan, bcast, wire,
          replica, intents, log, rcvd, frames>>

Room == "room"

\* VideoSession::new(metadata)
VideoSession_new(t) ==
    [project |-> NewProject("server"), clients |-> {}, server_version |-> 0,
     last_activity |-> t]

Init ==
    /\ sessions = {}
    /\ session = VideoSession_new(0)
    /\ sweeper = "sleeping"
    /\ swept = -1
    /\ created = 0
    /\ arc = [c \in Clients |-> 0]
    /\ manager_lock = "free"
    /\ session_lock = "free"
    /\ engine = [stage |-> "idle"]
    /\ now = 0
    /\ ticks = 0
    /\ pc = [c \in Clients |-> "new"]
    /\ inbox = [c \in Clients |-> <<>>]
    /\ chan = [c \in Clients |-> <<>>]
    /\ bcast = [c \in Clients |-> <<>>]
    /\ wire = [c \in Clients |-> <<>>]
    /\ replica = [c \in Clients |->
                    [project |-> NewProject(c), client_version |-> 0, alive |-> TRUE]]
    /\ intents = <<>>
    /\ log = <<>>
    /\ rcvd = [c \in Clients |-> <<>>]
    /\ frames = 0

\* The task still owns client_receiver and polls it.
Listening(c) == pc[c] \in {"join", "subscribe", "loop"}
\* The task has subscribed to session.broadcast and polls broadcast_rx.
Subscribed(c) == pc[c] = "loop"
\* The browser's WebSocket is open.
SocketOpen(c) == pc[c] \in {"start", "join", "subscribe", "loop"}

\* broadcast_message putting the message at the front of each queue.
broadcast_message_AtFront(ch, clients, msg) ==
    [d \in Clients |->
        IF UserId(d) \in clients /\ Listening(d) THEN <<msg>> \o ch[d] ELSE ch[d]]

\* VideoSession::broadcast_message and the loop of handle_websocket lines
\* 193-195: one message to the sender of every client in the roster `clients`.
broadcast_message(ch, clients, msg) ==
    [d \in Clients |->
        IF UserId(d) \in clients /\ Listening(d) THEN Append(ch[d], msg) ELSE ch[d]]

\* ws_sender.send(frame).  The browser's onmessage acts on ClientOperation
\* frames only: a bare OTOperation is no ServerMessage and fails to parse
\* (client lines 82-87), every other ServerMessage is logged (lines 76-81).
\* Frames that are only logged are not kept on the wire.
ws_send(w, c, frame) ==
    IF frame.type = "ClientOperation" THEN [w EXCEPT ![c] = Append(@, frame)] ELSE w

\* broadcast::Sender::send: one copy for every subscribed receiver.
broadcast_send(bc, op) ==
    [d \in Clients |-> IF Subscribed(d) THEN Append(bc[d], op) ELSE bc[d]]

(***************************************************************************)
(* weframe-server: the connection task, handle_websocket.                  *)
(***************************************************************************)
\* WeframeClient::new opens the socket; the server accepts it (lines 153-156).
Connect(c) ==
    /\ pc[c] = "new"
    /\ pc' = [pc EXCEPT ![c] = "start"]
    /\ replica' = [replica EXCEPT ![c] =
                      [project |-> NewProject(c), client_version |-> 0, alive |-> TRUE]]
    /\ UNCHANGED <<sessions, session, sweeper, swept, engine, created, arc, manager_lock, session_lock, now, ticks, inbox, chan, bcast, wire,
                   intents, log, rcvd, frames>>

\* get_or_create_session that inserts a new VideoSession whether or not the
\* room has one.
get_or_create_session_Insert(c) ==
    /\ pc[c] = "start"
    /\ pc' = [pc EXCEPT ![c] = "join"]
    /\ sessions' = sessions \cup {Room}
    /\ session' = VideoSession_new(now)
    /\ created' = created + 1
    /\ arc' = [arc EXCEPT ![c] = created']
    /\ UNCHANGED <<sweeper, swept, manager_lock, session_lock, engine, now, ticks, inbox, chan, bcast, wire, replica, intents,
                   log, rcvd, frames>>

\* SessionManager::get_or_create_session under manager.write() (lines 158-161):
\* entry(id).or_insert_with(VideoSession::new).clone().
get_or_create_session(c) ==
    /\ pc[c] = "start"
    /\ pc' = [pc EXCEPT ![c] = "join"]
    /\ IF Room \in sessions
       THEN UNCHANGED <<sessions, session, created>>
       ELSE /\ sessions' = sessions \cup {Room}
            /\ session' = VideoSession_new(now)
            /\ created' = created + 1
    /\ arc' = [arc EXCEPT ![c] = created']
    /\ UNCHANGED <<sweeper, swept, manager_lock, session_lock, engine, now, ticks, inbox, chan, bcast, wire, replica, intents,
                   log, rcvd, frames>>

\* VideoSession::add_client
add_client(s, uid, t) ==
    [s EXCEPT !.clients = @ \cup {uid},
              !.project.collaborators = Append(@, Collaborator(uid)),
              !.last_activity = t]

\* The join block under session.write() (lines 163-172).
JoinSession(c) ==
    /\ pc[c] = "join"
    /\ pc' = [pc EXCEPT ![c] = "subscribe"]
    /\ IF UserId(c) \notin session.clients
       THEN /\ session' = add_client(session, UserId(c), now)
            /\ chan' = broadcast_message(chan, session'.clients,
                          [type |-> "NewClient", client_id |-> UserId(c)])
       ELSE UNCHANGED <<session, chan>>
    /\ UNCHANGED <<sessions, sweeper, swept, engine, created, arc, manager_lock, session_lock, now, ticks, inbox, bcast, wire, replica,
                   intents, log, rcvd, frames>>

\* session.broadcast.subscribe() under session.read() (lines 174-177).
Subscribe(c) ==
    /\ pc[c] = "subscribe"
    /\ pc' = [pc EXCEPT ![c] = "loop"]
    /\ UNCHANGED <<sessions, session, sweeper, swept, engine, created, arc, manager_lock, session_lock, now, ticks, inbox, chan, bcast, wire,
                   replica, intents, log, rcvd, frames>>

\* VideoSession::apply_operation without its increment of server_version.
session_apply_operation_NoIncrement(s, op) ==
    [s EXCEPT !.project = apply_operation(@, op.operation)]

\* VideoSession::apply_operation that commits only what changes the project.
session_apply_operation_SkipNoOp(s, op) ==
    IF apply_operation(s.project, op.operation) = s.project THEN s
    ELSE [s EXCEPT !.project = apply_operation(@, op.operation),
                   !.server_version = @ + 1]

\* VideoSession::apply_operation (the send on `broadcast` is broadcast_send).
session_apply_operation(s, op) ==
    [s EXCEPT !.project = apply_operation(@, op.operation),
              !.server_version = @ + 1]

\* The commit of handle_websocket, lines 184-195, under session.write().
Submit(c, client_op) ==
    LET transformed_op == transform_with_version(client_op, session.server_version)
        touched == [session EXCEPT !.last_activity = now]
    IN IF apply_panics(session.project, transformed_op.operation)
       THEN \* the task panics inside apply_operation: nothing is committed and
            \* lines 219-221 never run, so the roster keeps the client
            /\ session' = touched
            /\ pc' = [pc EXCEPT ![c] = "panicked"]
            /\ inbox' = [inbox EXCEPT ![c] = <<>>]
            /\ chan' = [chan EXCEPT ![c] = <<>>]
            /\ bcast' = [bcast EXCEPT ![c] = <<>>]
            /\ wire' = [wire EXCEPT ![c] = <<>>]
            /\ UNCHANGED log
       ELSE /\ session' = session_apply_operation(touched, transformed_op)
            /\ bcast' = broadcast_send(bcast, transformed_op)
            /\ chan' = broadcast_message(chan, session.clients,
                          [type |-> "ClientOperation", op |-> transformed_op])
            /\ log' = Append(log, transformed_op)
            /\ inbox' = [inbox EXCEPT ![c] = Tail(@)]
            /\ UNCHANGED <<pc, wire>>

\* The turn on ws_receiver.next() answering a frame it cannot parse with a
\* ServerMessage::Error to the roster.
HandleFrame_ReportGarbage(c) ==
    /\ pc[c] = "loop"
    /\ inbox[c] # <<>>
    /\ LET f == Head(inbox[c])
       IN CASE f.type = "OTOperation" -> Submit(c, f.op)
            [] f.type = "Ping" ->
                 /\ wire' = ws_send(wire, c, [type |-> "Pong"])
                 /\ inbox' = [inbox EXCEPT ![c] = Tail(@)]
                 /\ UNCHANGED <<session, pc, chan, bcast, log>>
            [] OTHER ->
                 /\ inbox' = [inbox EXCEPT ![c] = Tail(@)]
                 /\ chan' = broadcast_message(chan, session.clients,
                               [type |-> "Error", client_id |-> UserId(c)])
                 /\ UNCHANGED <<session, pc, bcast, wire, log>>
    /\ UNCHANGED <<sessions, sweeper, swept, engine, created, arc, manager_lock, session_lock, now, ticks, replica, intents, rcvd, frames>>

\* One turn of the select! loop on ws_receiver.next() (lines 181-203).
HandleFrame(c) ==
    /\ pc[c] = "loop"
    /\ inbox[c] # <<>>
    /\ LET f == Head(inbox[c])
       IN CASE f.type = "OTOperation" -> Submit(c, f.op)
            [] f.type = "Ping" ->
                 /\ wire' = ws_send(wire, c, [type |-> "Pong"])
                 /\ inbox' = [inbox EXCEPT ![c] = Tail(@)]
                 /\ UNCHANGED <<session, pc, chan, bcast, log>>
            [] OTHER ->
                 /\ inbox' = [inbox EXCEPT ![c] = Tail(@)]
                 /\ UNCHANGED <<session, pc, chan, bcast, wire, log>>
    /\ UNCHANGED <<sessions, sweeper, swept, engine, created, arc, manager_lock, session_lock, now, ticks, replica, intents, rcvd, frames>>

\* One turn of the select! loop on broadcast_rx.recv() (lines 204-209): the
\* bare OTOperation is written to the socket.
ForwardBroadcast(c) ==
    /\ pc[c] = "loop"
    /\ bcast[c] # <<>>
    /\ wire' = ws_send(wire, c, [type |-> "OTOperation", op |-> Head(bcast[c])])
    /\ bcast' = [bcast EXCEPT ![c] = Tail(@)]
    /\ UNCHANGED <<sessions, session, sweeper, swept, engine, created, arc, manager_lock, session_lock, now, ticks, pc, inbox, chan, replica,
                   intents, log, rcvd, frames>>

\* One turn of the select! loop on client_receiver.recv() (lines 210-214).
ForwardClient(c) ==
    /\ pc[c] = "loop"
    /\ chan[c] # <<>>
    /\ wire' = ws_send(wire, c, Head(chan[c]))
    /\ chan' = [chan EXCEPT ![c] = Tail(@)]
    /\ UNCHANGED <<sessions, session, sweeper, swept, engine, created, arc, manager_lock, session_lock, now, ticks, pc, inbox, bcast, replica,
                   intents, log, rcvd, frames>>

\* The loop breaks: the inbound stream yields Err or a send on ws_sender fails
\* (lines 201, 206-208, 211-213).  The socket is gone with what it held.
Break(c) ==
    /\ pc[c] = "loop"
    /\ pc' = [pc EXCEPT ![c] = "leaving"]
    /\ inbox' = [inbox EXCEPT ![c] = <<>>]
    /\ chan' = [chan EXCEPT ![c] = <<>>]
    /\ bcast' = [bcast EXCEPT ![c] = <<>>]
    /\ wire' = [wire EXCEPT ![c] = <<>>]
    /\ UNCHANGED <<sessions, session, sweeper, swept, engine, created, arc, manager_lock, session_lock, now, ticks, replica, intents, log,
                   rcvd, frames>>

\* remove_client that forgets project.collaborators.
remove_client_KeepCollaborator(s, uid) ==
    [s EXCEPT !.clients = @ \ {uid}]

\* VideoSession::remove_client
remove_client(s, uid) ==
    [s EXCEPT !.clients = @ \ {uid},
              !.project.collaborators = SelectSeq(@, LAMBDA k : k.id # uid)]

\* After the loop, under session.write() (lines 219-221).
Leave(c) ==
    /\ pc[c] = "leaving"
    /\ pc' = [pc EXCEPT ![c] = "done"]
    /\ session' = remove_client(session, UserId(c))
    /\ chan' = broadcast_message(chan, session'.clients,
                  [type |-> "ClientDisconnected", client_id |-> UserId(c)])
    /\ UNCHANGED <<sessions, sweeper, swept, engine, created, arc, manager_lock, session_lock, now, ticks, inbox, bcast, wire, replica,
                   intents, log, rcvd, frames>>

(***************************************************************************)
(* weframe-server: the sweeper of run_server.                              *)
(***************************************************************************)
\* The clock advances: by one sweeper period, or to one period short of the
\* idle limit.
Tick ==
    /\ ticks < MaxTicks
    /\ \E d \in {SweepHours, IdleHours - SweepHours} : now' = now + d
    /\ ticks' = ticks + 1
    /\ UNCHANGED <<sessions, session, sweeper, swept, engine, created, arc, manager_lock, session_lock, pc, inbox, chan, bcast, wire, replica,
                   intents, log, rcvd, frames>>

\* cleanup_inactive_sessions whose read of last_activity succeeds: retain
\* keeps the sessions idle for less than IdleHours and removes the others.
cleanup_inactive_sessions_Retain ==
    /\ sweeper = "sleeping"
    /\ sweeper' = sweeper
    /\ swept' = now
    /\ sessions' = IF now - session.last_activity < IdleHours THEN sessions ELSE {}
    /\ UNCHANGED <<session, engine, created, arc, manager_lock, session_lock, now, ticks, pc, inbox, chan, bcast, wire,
                   replica, intents, log, rcvd, frames>>

\* SessionManager::cleanup_inactive_sessions, called by the spawned task of
\* run_server under manager.write().  `retain` calls the closure once per
\* session, and the closure calls RwLock::blocking_read, which panics when
\* called from a task of the runtime: with a session in the map the sweeper
\* task dies in the first call of the closure, before anything is removed;
\* with an empty map the sweep does nothing.
cleanup_inactive_sessions ==
    /\ sweeper = "sleeping"
    /\ sweeper' = IF sessions = {} THEN sweeper ELSE "panicked"
    /\ swept' = now
    /\ sessions' = sessions
    /\ UNCHANGED <<session, engine, created, arc, manager_lock, session_lock, now, ticks, pc, inbox, chan, bcast, wire,
                   replica, intents, log, rcvd, frames>>

(***************************************************************************)
(* weframe-client: WeframeClient.                                          *)
(***************************************************************************)
CanIntend(c) ==
    /\ SocketOpen(c)
    /\ replica[c].alive
    /\ Len(intents) + frames < MaxIntents

FreshId == Len(intents) + 1

\* send_operation, with the history of intents: `seen` is the number of
\* ClientOperations the replica had handled when it issued the intent.
Send(c, operation) ==
    LET op == OTOperation(c, replica[c].client_version, 0, operation)
    IN /\ inbox' = [inbox EXCEPT ![c] = Append(@, [type |-> "OTOperation", op |-> op])]
       /\ intents' = Append(intents, [client |-> c, op |-> op, seen |-> Len(rcvd[c])])

\* WeframeClient::add_clip: the clip is pushed after the send.
add_clip(c, start_time, end_time, track) ==
    /\ CanIntend(c)
    /\ LET new_clip == VideoClip(FreshId, start_time, end_time, track)
       IN /\ Send(c, [kind |-> "AddClip", clip |-> new_clip])
          /\ replica' = [replica EXCEPT ![c].client_version = @ + 1,
                                        ![c].project.clips = Append(@, new_clip)]
    /\ UNCHANGED <<sessions, session, sweeper, swept, engine, created, arc, manager_lock, session_lock, now, ticks, pc, chan, bcast, wire,
                   log, rcvd, frames>>

\* WeframeClient::move_clip: the clip is taken out, given the new start and
\* track (its end_time is left as it was) and pushed at the end.
move_clip(c, clip_id, new_start_time, new_track) ==
    /\ CanIntend(c)
    /\ HasClip(replica[c].project, clip_id)
    /\ LET clips == replica[c].project.clips
           i == Position(clips, clip_id)
           clip == [clips[i] EXCEPT !.start_time = new_start_time, !.track = new_track]
       IN /\ replica' = [replica EXCEPT ![c].client_version = @ + 1,
                                        ![c].project.clips = Append(RemoveAt(clips, i), clip)]
          /\ Send(c, [kind |-> "MoveClip", id |-> clip_id,
                      new_start_time |-> new_start_time, new_track |-> new_track])
    /\ UNCHANGED <<sessions, session, sweeper, swept, engine, created, arc, manager_lock, session_lock, now, ticks, pc, chan, bcast, wire,
                   log, rcvd, frames>>

\* WeframeClient::resize_clip
resize_clip(c, clip_id, new_end_time) ==
    /\ CanIntend(c)
    /\ HasClip(replica[c].project, clip_id)
    /\ LET i == Position(replica[c].project.clips, clip_id)
       IN /\ replica' = [replica EXCEPT ![c].client_version = @ + 1,
                                        ![c].project.clips[i].end_time = new_end_time]
          /\ Send(c, [kind |-> "TrimClip", id |-> clip_id,
                      new_start_time |-> replica[c].project.clips[i].start_time,
                      new_end_time |-> new_end_time])
    /\ UNCHANGED <<sessions, session, sweeper, swept, engine, created, arc, manager_lock, session_lock, now, ticks, pc, chan, bcast, wire,
                   log, rcvd, frames>>

\* WeframeClient::apply_effect
apply_effect(c, clip_id, effect_type) ==
    /\ CanIntend(c)
    /\ HasClip(replica[c].project, clip_id)
    /\ LET i == Position(replica[c].project.clips, clip_id)
           effect == NewEffect(FreshId, effect_type)
       IN /\ replica' = [replica EXCEPT
                ![c].client_version = @ + 1,
                ![c].project.clips[i].effects =
                    Append(SelectSeq(@, LAMBDA e : e.effect_type # effect_type), effect)]
          /\ Send(c, [kind |-> "AddEffect", clip_id |-> clip_id, effect |-> effect])
    /\ UNCHANGED <<sessions, session, sweeper, swept, engine, created, arc, manager_lock, session_lock, now, ticks, pc, chan, bcast, wire,
                   log, rcvd, frames>>

\* WeframeClient::update_cursor_position
update_cursor_position(c, track, time) ==
    /\ CanIntend(c)
    /\ LET new_position == [track |-> track, time |-> time]
           k == Position(replica[c].project.collaborators, c)
       IN /\ replica' = [replica EXCEPT
                ![c].client_version = @ + 1,
                ![c].project.collaborators =
                    IF k = 0 THEN @ ELSE [@ EXCEPT ![k].cursor_position = new_position]]
          /\ Send(c, [kind |-> "UpdateCollaboratorCursor", collaborator_id |-> c,
                      new_position |-> new_position])
    /\ UNCHANGED <<sessions, session, sweeper, swept, engine, created, arc, manager_lock, session_lock, now, ticks, pc, chan, bcast, wire,
                   log, rcvd, frames>>

\* WeframeClient::rename_project sends EditOperation::RenameProject, a variant
\* the EditOperation of weframe-shared does not have: the server can parse the
\* frame neither as an OTOperation nor as a Ping.
rename_project(c) ==
    /\ SocketOpen(c)
    /\ replica[c].alive
    /\ Len(intents) + frames < MaxIntents
    /\ frames' = frames + 1
    /\ inbox' = [inbox EXCEPT ![c] = Append(@, [type |-> "Unparsable"])]
    /\ replica' = [replica EXCEPT ![c].client_version = @ + 1]
    /\ UNCHANGED <<sessions, session, sweeper, swept, engine, created, arc, manager_lock, session_lock, now, ticks, pc, chan, bcast, wire,
                   intents, log, rcvd>>

\* A peer sends ServerMessage::Ping(timestamp).
SendPing(c) ==
    /\ SocketOpen(c)
    /\ Len(intents) + frames < MaxIntents
    /\ frames' = frames + 1
    /\ inbox' = [inbox EXCEPT ![c] = Append(@, [type |-> "Ping"])]
    /\ UNCHANGED <<sessions, session, sweeper, swept, engine, created, arc, manager_lock, session_lock, now, ticks, pc, chan, bcast, wire,
                   replica, intents, log, rcvd>>

\* The onmessage closure of setup_ws_handlers on a ClientOperation (lines
\* 51-58).  A panic inside apply_operation leaves the project borrowed: the
\* replica is dead from then on.
OnMessage(c) ==
    /\ wire[c] # <<>>
    /\ replica[c].alive
    /\ wire' = [wire EXCEPT ![c] = Tail(@)]
    /\ LET m == Head(wire[c])
       IN /\ rcvd' = [rcvd EXCEPT ![c] = Append(@, m.op)]
          /\ replica' = [replica EXCEPT ![c] =
                IF apply_panics(@.project, m.op.operation)
                THEN [@ EXCEPT !.alive = FALSE]
                ELSE [@ EXCEPT !.project = apply_operation(@, m.op.operation),
                               !.client_version = m.op.server_version]]
    /\ UNCHANGED <<sessions, session, sweeper, swept, engine, created, arc, manager_lock, session_lock, now, ticks, pc, inbox, chan, bcast,
                   intents, log, frames>>

(***************************************************************************)
(* The system.                                                             *)
(***************************************************************************)
ServerStep ==
    \E c \in Clients :
        \/ Connect(c)
        \/ get_or_create_session(c)
        \/ JoinSession(c)
        \/ Subscribe(c)
        \/ HandleFrame(c)
        \/ ForwardBroadcast(c)
        \/ ForwardClient(c)
        \/ Break(c)
        \/ Leave(c)

\* In the life of a room the clients add clips on track 0 and move them.
ClientStep ==
    \E c \in Clients :
        \/ \E s \in Times, e \in Times : add_clip(c, s, e, 0)
        \/ \E id \in ClipIds, s \in Times : move_clip(c, id, s, 0)
        \/ rename_project(c)
        \/ SendPing(c)
        \/ OnMessage(c)

Next == ServerStep \/ ClientStep \/ cleanup_inactive_sessions

Spec == Init /\ [][Next]_vars

(***************************************************************************)
(* Concurrent editing: both clients have joined the room, subscribed and   *)
(* handled the NewClient messages of the joins; nothing else has happened. *)
(***************************************************************************)
Joined ==
    /\ sessions = {Room}
    /\ session = add_client(add_client(VideoSession_new(0), "user-1", 0), "user-2", 0)
    /\ pc = [c \in Clients |-> "loop"]
    /\ inbox = [c \in Clients |-> <<>>]
    /\ chan = [c \in Clients |-> <<>>]
    /\ bcast = [c \in Clients |-> <<>>]
    /\ wire = [c \in Clients |-> <<>>]
    /\ replica = [c \in Clients |->
                    [project |-> NewProject(c), client_version |-> 0, alive |-> TRUE]]
    /\ intents = <<>> /\ log = <<>> /\ frames = 0
    /\ rcvd = [c \in Clients |-> <<>>]

InitOT ==
    /\ Joined
    /\ sweeper = "sleeping" /\ swept = -1 /\ engine = [stage |-> "idle"]
    /\ created = 1 /\ arc = [c \in Clients |-> 1]
    /\ manager_lock = "free" /\ session_lock = "free"
    /\ now = 0 /\ ticks = 0

EditStep ==
    \E c \in Clients :
        \/ \E s \in Times, e \in Times, t \in Tracks : add_clip(c, s, e, t)
        \/ \E id \in ClipIds, s \in Times, t \in Tracks : move_clip(c, id, s, t)
        \/ \E id \in ClipIds, e \in Times : resize_clip(c, id, e)
        \/ \E id \in ClipIds, ty \in EffectTypes : apply_effect(c, id, ty)
        \/ HandleFrame(c)
        \/ ForwardBroadcast(c)
        \/ ForwardClient(c)
        \/ OnMessage(c)

SpecOT == InitOT /\ [][EditStep]_vars

(***************************************************************************)
(* Concurrent editing of one clip: as InitOT, and client "a" has added a   *)
(* clip that the session has committed and both replicas have handled      *)
(* (the replica of "a" holds it twice: its own push and the echo).  The    *)
(* histories start here.                                                   *)
(***************************************************************************)
SeedClip(s, e) == VideoClip(SeedClipId, s, e, 0)
SeedOp(s, e) ==
    transform_with_version(
        OTOperation("a", 0, 0, [kind |-> "AddClip", clip |-> SeedClip(s, e)]), 0)

Seeded(s, e) ==
    /\ sessions = {Room}
    /\ session = session_apply_operation(
                    add_client(add_client(VideoSession_new(0), "user-1", 0), "user-2", 0),
                    SeedOp(s, e))
    /\ pc = [c \in Clients |-> "loop"]
    /\ inbox = [c \in Clients |-> <<>>]
    /\ chan = [c \in Clients |-> <<>>]
    /\ bcast = [c \in Clients |-> <<>>]
    /\ wire = [c \in Clients |-> <<>>]
    /\ replica = [c \in Clients |->
          [project |-> apply_operation(
                          IF c = "a"
                          THEN [NewProject(c) EXCEPT !.clips = <<SeedClip(s, e)>>]
                          ELSE NewProject(c),
                          SeedOp(s, e).operation),
           client_version |-> SeedOp(s, e).server_version,
           alive |-> TRUE]]

InitEdit ==
    /\ \E s \in Times, e \in Times : Seeded(s, e)
    /\ sweeper = "sleeping" /\ swept = -1 /\ engine = [stage |-> "idle"]
    /\ created = 1 /\ arc = [c \in Clients |-> 1]
    /\ manager_lock = "free" /\ session_lock = "free"
    /\ now = 0 /\ ticks = 0
    /\ intents = <<>> /\ log = <<>> /\ frames = 0
    /\ rcvd = [c \in Clients |-> <<>>]

MoveTrimStep ==
    \E c \in Clients :
        \/ \E s \in Times, t \in Tracks : move_clip(c, SeedClipId, s, t)
        \/ \E e \in Times : resize_clip(c, SeedClipId, e)
        \/ HandleFrame(c)
        \/ ForwardBroadcast(c)
        \/ ForwardClient(c)
        \/ OnMessage(c)

SpecEdit == InitEdit /\ [][MoveTrimStep]_vars

(***************************************************************************)
(* Properties.                                                             *)
(***************************************************************************)
Replicas == {replica[c].project : c \in Clients}
Projects == {session.project} \cup Replicas

\* The document of a project: its timeline and its duration.
SameDocument(p, q) == p.clips = q.clips /\ p.duration = q.duration

\* Two intents, by distinct clients, each issued before its client had
\* handled the commit of the other: both built on the same base.
TwoConcurrentIntents ==
    /\ Len(intents) = 2
    /\ intents[1].client # intents[2].client
    /\ intents[1].seen = intents[2].seen

\* The session has committed both and every client has handled both
\* ClientOperation messages, its own echo included.
BothCommittedAndEchoed ==
    /\ Len(log) = 2
    /\ \A c \in Clients : Len(rcvd[c]) = 2 /\ wire[c] = <<>>

IntentOf(c) == (CHOOSE i \in 1..Len(intents) : intents[i].client = c)

\* C1 -- Convergence: once two concurrent operations of two distinct clients
\* are committed and every client has handled both broadcasts, every
\* client's project equals the server's project.
C1_Convergence ==
    (TwoConcurrentIntents /\ BothCommittedAndEchoed)
        => \A c \in Clients : SameDocument(replica[c].project, session.project)

\* C2 -- Version monotonicity: server_version is 0 in a new session, a
\* successful submit adds exactly 1 to it, and no other step (join, leave,
\* ping, unparsable frame, failed submit, cleanup) changes it.
C2_VersionMonotonicity ==
    [][/\ (Room \notin sessions /\ Room \in sessions') => session'.server_version = 0
       /\ Room \in sessions =>
            session'.server_version =
                session.server_version + (IF Len(log') = Len(log) + 1 THEN 1 ELSE 0)
       /\ Room \in sessions => session'.server_version >= session.server_version]_vars

\* C2 witness: two operations are committed, a client has left and the
\* sweeper has run.
C2_Witness ==
    /\ session.server_version = 2
    /\ \E c \in Clients : pc[c] = "done"
    /\ sweeper = "panicked"

\* C3 -- The k-th committed operation of a session is broadcast with
\* server_version = k, the value of the counter right after it was applied.
C3_BroadcastCarriesAssignedVersion ==
    \A k \in 1..Len(log) : log[k].server_version = k

\* C4 -- Broadcast ordering: the server_version values of the
\* ClientOperations a client handles are strictly increasing in the order of
\* receipt, and every client handles the operations in commit order.
C4_BroadcastOrdering ==
    \A c \in Clients :
        \A i, j \in 1..Len(rcvd[c]) :
            i < j =>
                /\ rcvd[c][i].server_version < rcvd[c][j].server_version
                /\ \E k, l \in 1..Len(log) :
                      k < l /\ log[k] = rcvd[c][i] /\ log[l] = rcvd[c][j]

\* C4 witness: one client has handled two ClientOperations, the other only
\* the second of them.
C4_Witness ==
    \E c, d \in Clients :
        /\ Len(rcvd[c]) = 2
        /\ Len(rcvd[d]) = 1
        /\ rcvd[d][1] = rcvd[c][2]

\* C5 -- Idempotent redelivery of AddClip: clip ids stay unique within every
\* project, also after the origin's optimistic add is followed by its echo.
C5_ClipIdsUnique ==
    \A p \in Projects :
        \A i, j \in 1..Len(p.clips) : i # j => p.clips[i].id # p.clips[j].id

\* C6 -- Effect uniqueness: every clip of every project holds at most one
\* effect per effect_type.
C6_EffectUniqueness ==
    \A p \in Projects :
        \A n \in 1..Len(p.clips) :
            \A i, j \in 1..Len(p.clips[n].effects) :
                i # j => p.clips[n].effects[i].effect_type # p.clips[n].effects[j].effect_type

\* The task of connection c reads the frame at the head of its inbox.
Handles(c) ==
    /\ pc[c] = "loop"
    /\ inbox[c] # <<>>
    /\ Len(inbox'[c]) < Len(inbox[c])
    /\ pc'[c] \in {"loop", "panicked"}

\* C7 -- Move preserves duration: a MoveClip handled by the session gives the
\* clip the new start and track and keeps end_time - start_time; the rest of
\* the project is unchanged, and nothing changes when the clip is absent.
C7_MovePreservesDuration ==
    [][\A c \in Clients :
          (/\ Handles(c)
           /\ Head(inbox[c]).type = "OTOperation"
           /\ Head(inbox[c]).op.operation.kind = "MoveClip")
          => LET op == Head(inbox[c]).op.operation
                 p == session.project
                 q == session'.project
                 i == Position(p.clips, op.id)
             IN IF i = 0 THEN q = p
                ELSE /\ Len(q.clips) = Len(p.clips)
                     /\ q.clips[i].start_time = op.new_start_time
                     /\ q.clips[i].track = op.new_track
                     /\ q.clips[i].end_time - q.clips[i].start_time
                           = p.clips[i].end_time - p.clips[i].start_time
                     /\ q = [p EXCEPT !.clips[i] =
                               [@ EXCEPT !.start_time = q.clips[i].start_time,
                                         !.end_time = q.clips[i].end_time,
                                         !.track = q.clips[i].track]]]_vars

BothKind(kind) ==
    /\ intents[1].op.operation.kind = kind
    /\ intents[2].op.operation.kind = kind

\* C8 -- Trim intersection under concurrency: two concurrent valid TrimClips
\* of one clip, [a1,b1] and [a2,b2], leave the clip at [max(a1,a2),
\* min(b1,b2)] on the server and on every client, whichever commits first.
C8_TrimIntersection ==
    (/\ TwoConcurrentIntents
     /\ BothKind("TrimClip")
     /\ intents[1].op.operation.id = intents[2].op.operation.id
     /\ \A n \in 1..2 : intents[n].op.operation.new_start_time
                            <= intents[n].op.operation.new_end_time
     /\ BothCommittedAndEchoed)
    => LET t1 == intents[1].op.operation
           t2 == intents[2].op.operation
       IN \A p \in Projects :
             /\ HasClip(p, t1.id)
             /\ Clip(p, t1.id).start_time = Max(t1.new_start_time, t2.new_start_time)
             /\ Clip(p, t1.id).end_time = Min(t1.new_end_time, t2.new_end_time)

\* C9 -- Concurrent move of one clip, server wins: the clip ends at the
\* start_time and track of the move committed first, on the server and on
\* the replica of the client whose move was committed second.
C9_MoveServerWins ==
    (/\ TwoConcurrentIntents
     /\ BothKind("MoveClip")
     /\ intents[1].op.operation.id = intents[2].op.operation.id
     /\ BothCommittedAndEchoed)
    => LET first == log[1].operation
           B == log[2].client_id
       IN \A p \in {session.project, replica[B].project} :
             /\ HasClip(p, first.id)
             /\ Clip(p, first.id).start_time = first.new_start_time
             /\ Clip(p, first.id).track = first.new_track

\* C10 -- Concurrent AddClip tiebreak: "a" adds c1 and "b" adds c2, both at
\* server_version 0; after both commits the server and both clients hold c1
\* as submitted and c2 with start_time = c2.start_time + (c1.end_time -
\* c1.start_time).
C10_AddClipTiebreak ==
    (/\ TwoConcurrentIntents
     /\ BothKind("AddClip")
     /\ intents[IntentOf("a")].op.operation.clip.start_time
            <= intents[IntentOf("a")].op.operation.clip.end_time
     /\ BothCommittedAndEchoed)
    => LET c1 == intents[IntentOf("a")].op.operation.clip
           c2 == intents[IntentOf("b")].op.operation.clip
       IN \A p \in Projects :
             /\ HasClip(p, c1.id)
             /\ Clip(p, c1.id).start_time = c1.start_time
             /\ Clip(p, c1.id).end_time = c1.end_time
             /\ HasClip(p, c2.id)
             /\ Clip(p, c2.id).start_time
                   = c2.start_time + (c1.end_time - c1.start_time)

(***************************************************************************)
(* Joining and leaving.                                                    *)
(***************************************************************************)
\* The server version a replica knows last: the server_version of the last
\* ClientOperation it has handled, 0 when it has handled none.
last_server_version(c) ==
    IF rcvd[c] = <<>> THEN 0 ELSE rcvd[c][Len(rcvd[c])].server_version

HoldsClientOperation(q) == \E i \in 1..Len(q) : q[i].type = "ClientOperation"

\* Client c is in the roster and nothing has been committed since it joined:
\* every commit after add_client puts a ClientOperation on its queue.
JustJoined(c) ==
    /\ pc[c] \in {"subscribe", "loop"}
    /\ UserId(c) \in session.clients
    /\ ~HoldsClientOperation(chan[c])
    /\ wire[c] = <<>>
    /\ rcvd[c] = <<>>
    /\ \A i \in 1..Len(intents) : intents[i].client # c

\* C11 -- Join delivers a snapshot: right after a client has joined a session
\* in which operations were committed, and before any further commit, its
\* project equals the server's project and the server version it knows
\* equals the session's server_version.
C11_JoinDeliversSnapshot ==
    \A c \in Clients :
        (JustJoined(c) /\ Len(log) > 0)
            => /\ SameDocument(replica[c].project, session.project)
               /\ last_server_version(c) = session.server_version

DisconnectedMsg(c) == [type |-> "ClientDisconnected", client_id |-> UserId(c)]

\* C12 -- Disconnect cleans the roster: when the loop of a connection task
\* has ended (stream error or close, failed send), the task removes its
\* client, and no other, from session.clients and project.collaborators and
\* sends ClientDisconnected to every client left in the roster; a client
\* whose task is done is in neither.
C12_DisconnectCleansRoster ==
    [][\A c \in Clients :
          /\ (pc[c] = "leaving" /\ pc'[c] = "done") =>
                /\ session'.clients = session.clients \ {UserId(c)}
                /\ \A d \in Clients \ {c} :
                      /\ UserId(d) \in session.clients <=> UserId(d) \in session'.clients
                      /\ \A i \in 1..Len(session.project.collaborators) :
                            session.project.collaborators[i].id = UserId(d) =>
                               \E j \in 1..Len(session'.project.collaborators) :
                                  session'.project.collaborators[j]
                                      = session.project.collaborators[i]
                /\ Len(session'.project.collaborators)
                      = Len(session.project.collaborators) - 1
                /\ \A d \in Clients :
                      (UserId(d) \in session'.clients /\ Listening(d))
                          => chan'[d] = Append(chan[d], DisconnectedMsg(c))
          /\ pc'[c] = "done" =>
                /\ UserId(c) \notin session'.clients
                /\ \A j \in 1..Len(session'.project.collaborators) :
                      session'.project.collaborators[j].id # UserId(c)]_vars

\* C12 witness: a client has left and the other, still in the roster, has
\* the ClientDisconnected message on its queue.
C12_Witness ==
    \E c, d \in Clients :
        /\ pc[c] = "done"
        /\ UserId(d) \in session.clients
        /\ chan[d] # <<>>
        /\ chan[d][Len(chan[d])] = DisconnectedMsg(c)

(***************************************************************************)
(* The life of a room under the clock: clients come and go, add clips on   *)
(* track 0, time passes and the sweeper wakes.                             *)
(***************************************************************************)
SweepStep ==
    \/ \E c \in Clients :
          \/ Connect(c)
          \/ get_or_create_session(c)
          \/ JoinSession(c)
          \/ Subscribe(c)
          \/ add_clip(c, 0, 0, 0)
          \/ HandleFrame(c)
          \/ ForwardBroadcast(c)
          \/ ForwardClient(c)
          \/ OnMessage(c)
          \/ Break(c)
          \/ Leave(c)
    \/ Tick
    \/ cleanup_inactive_sessions

SpecSweep == Init /\ [][SweepStep]_vars

\* C13 -- Idle expiry: a sweep removes exactly the sessions whose
\* last_activity is IdleHours or more in the past and keeps the others; a
\* session created anew starts with server_version 0 and an empty roster.
C13_IdleExpiry ==
    [][/\ swept' # swept =>
             (Room \in sessions' <=>
                 (Room \in sessions /\ now - session.last_activity < IdleHours))
       /\ (Room \notin sessions /\ Room \in sessions') =>
             (session'.server_version = 0 /\ session'.clients = {})]_vars

(***************************************************************************)
(* Frames of any peer: the server takes every frame that parses as an      *)
(* OTOperation, whatever program wrote it.                                 *)
(***************************************************************************)
TargetIds == {1, 2}     \* clip ids named by the operations of a peer
AFade == [id |-> 1, transition_type |-> "Fade"]

\* The EditOperations over the bounded ids and times, every variant.
EditOperations ==
    {[kind |-> "AddClip", clip |-> VideoClip(id, s, e, 0)] :
        id \in TargetIds, s \in Times, e \in Times}
    \cup {[kind |-> "RemoveClip", id |-> id] : id \in TargetIds}
    \cup {[kind |-> "MoveClip", id |-> id, new_start_time |-> s, new_track |-> 0] :
            id \in TargetIds, s \in Times}
    \cup {[kind |-> "TrimClip", id |-> id, new_start_time |-> s, new_end_time |-> e] :
            id \in TargetIds, s \in Times, e \in Times}
    \cup {[kind |-> "AddEffect", clip_id |-> id, effect |-> NewEffect(1, "Brightness")] :
            id \in TargetIds}
    \cup {[kind |-> "RemoveEffect", clip_id |-> id, effect_id |-> 1] : id \in TargetIds}
    \cup {[kind |-> "AddTransition", clip_id |-> id, transition |-> AFade] :
            id \in TargetIds}
    \cup {[kind |-> "RemoveTransition", clip_id |-> id] : id \in TargetIds}
    \cup {[kind |-> "SetProjectDuration", duration |-> d] : d \in Times}
    \cup {[kind |-> "UpdateCollaboratorCursor", collaborator_id |-> k,
           new_position |-> [track |-> 0, time |-> MaxTime]] :
            k \in {"a", "user-1"}}

\* The clip id an operation names, 0 when it names none.
TargetOf(op) ==
    CASE op.kind = "AddClip" -> op.clip.id
      [] op.kind \in {"RemoveClip", "MoveClip", "TrimClip"} -> op.id
      [] op.kind \in {"AddEffect", "RemoveEffect", "AddTransition", "RemoveTransition"} ->
            op.clip_id
      [] OTHER -> 0

\* A peer writes an OTOperation frame of its own making to the socket.
SendOperation(c, operation) ==
    /\ SocketOpen(c)
    /\ Len(intents) + frames < MaxIntents
    /\ frames' = frames + 1
    /\ inbox' = [inbox EXCEPT ![c] =
                    Append(@, [type |-> "OTOperation",
                               op |-> OTOperation(c, 0, 0, operation)])]
    /\ UNCHANGED <<sessions, session, sweeper, swept, engine, created, arc, manager_lock, session_lock, now, ticks, pc, chan, bcast, wire,
                   replica, intents, log, rcvd>>

SubmitStep ==
    \E c \in Clients :
        \/ \E operation \in {o \in EditOperations : TargetOf(o) \in {0, 1}} :
              SendOperation(c, operation)
        \/ \E s \in Times : update_cursor_position(c, 0, s)
        \/ HandleFrame(c)
        \/ ForwardBroadcast(c)
        \/ ForwardClient(c)
        \/ OnMessage(c)

SpecSubmit == InitOT /\ [][SubmitStep]_vars

\* The operation names a clip or a collaborator that project p does not hold.
NamesAbsent(p, op) ==
    CASE op.kind \in {"RemoveClip", "MoveClip", "TrimClip"} -> ~HasClip(p, op.id)
      [] op.kind \in {"AddEffect", "RemoveEffect", "AddTransition", "RemoveTransition"} ->
            ~HasClip(p, op.clip_id)
      [] op.kind = "UpdateCollaboratorCursor" ->
            Position(p.collaborators, op.collaborator_id) = 0
      [] OTHER -> FALSE

\* C14 -- Semantic no-ops still commit: a submitted operation that names a
\* clip or collaborator absent from the server project leaves the project
\* unchanged, adds 1 to server_version and is sent, with its envelope, as
\* ClientOperation to every client of the roster whose connection task runs.
C14_NoOpsStillCommit ==
    [][\A c \in Clients :
          (/\ pc[c] = "loop" /\ inbox[c] # <<>>
           /\ Len(inbox'[c]) < Len(inbox[c])
           /\ Head(inbox[c]).type = "OTOperation"
           /\ NamesAbsent(session.project, Head(inbox[c]).op.operation))
          => LET op == Head(inbox[c]).op
             IN /\ session'.project = session.project
                /\ session'.server_version = session.server_version + 1
                /\ \A d \in Clients :
                      (UserId(d) \in session.clients /\ Listening(d)) =>
                         /\ Len(chan'[d]) = Len(chan[d]) + 1
                         /\ chan'[d][Len(chan'[d])].type = "ClientOperation"
                         /\ chan'[d][Len(chan'[d])].op.operation = op.operation
                         /\ chan'[d][Len(chan'[d])].op.client_id = op.client_id
                         /\ chan'[d][Len(chan'[d])].op.client_version
                               = op.client_version]_vars

\* C14 witness: a MoveClip of a clip the server does not hold, and a cursor
\* update of a collaborator it does not hold, are committed and handled by
\* every client; the server project is as it was after the joins.
C14_Witness ==
    /\ Len(log) = 2
    /\ log[1].operation.kind = "MoveClip"
    /\ log[2].operation.kind = "UpdateCollaboratorCursor"
    /\ session.server_version = 2
    /\ session.project.clips = <<>>
    /\ \A c \in Clients : Len(rcvd[c]) = 2

\* C15 -- apply is total: on every project that submitted operations can
\* produce, applying an operation completes; no connection task and no
\* replica dies inside apply_operation.
C15_ApplyTotal ==
    \A c \in Clients : pc[c] # "panicked" /\ replica[c].alive

\* The left fold of the OT engine: op transformed against each operation of
\* `unseen`, in order.
RECURSIVE TransformedAgainst(_, _)
TransformedAgainst(op, unseen) ==
    IF unseen = <<>> THEN op
    ELSE TransformedAgainst(transform_operation(Head(unseen), op), Tail(unseen))

\* C16 -- Submit transforms against the unseen history: the operation the
\* session commits for an envelope with base = op.server_version is the
\* envelope's operation transformed, in commit order, against the committed
\* operations of versions base+1 .. server_version, and against no others.
C16_SubmitTransformsAgainstHistory ==
    [][\A c \in Clients :
          (/\ Handles(c)
           /\ pc'[c] = "loop"
           /\ Head(inbox[c]).type = "OTOperation")
          => LET op == Head(inbox[c]).op
                 unseen == SubSeq(log, op.server_version + 1, Len(log))
             IN /\ Len(log') = Len(log) + 1
                /\ log'[Len(log')].operation
                      = TransformedAgainst(op, unseen).operation]_vars

(***************************************************************************)
(* The OT engine on its own: VideoProject::transform_operation for every   *)
(* pair of operations, between the commit of server_op and the commit of   *)
(* the client's operation transformed against it.  Nothing else runs.      *)
(***************************************************************************)
\* The projects the engine is tried on: an empty timeline, and one that
\* holds the two target clips.
EngineProjects ==
    {NewProject("server"),
     [NewProject("server") EXCEPT
         !.clips = <<VideoClip(1, 0, MaxTime, 0), VideoClip(2, 0, MaxTime, 0)>>]}

InitTransform ==
    /\ sessions = {}
    /\ session = VideoSession_new(0)
    /\ sweeper = "sleeping"
    /\ swept = -1
    /\ created = 0
    /\ arc = [c \in Clients |-> 0]
    /\ manager_lock = "free"
    /\ session_lock = "free"
    /\ \E p \in EngineProjects, x \in Clients, y \in Clients,
          so \in EditOperations, co \in EditOperations :
          /\ x # y
          /\ (so.kind = "AddClip" /\ co.kind = "AddClip") => so.clip.id # co.clip.id
          /\ engine = [stage |-> "inputs", project |-> p,
                       server_op |-> OTOperation(x, 1, 0, so),
                       client_op |-> OTOperation(y, 0, 0, co)]
    /\ now = 0 /\ ticks = 0
    /\ pc = [c \in Clients |-> "new"]
    /\ inbox = [c \in Clients |-> <<>>]
    /\ chan = [c \in Clients |-> <<>>]
    /\ bcast = [c \in Clients |-> <<>>]
    /\ wire = [c \in Clients |-> <<>>]
    /\ replica = [c \in Clients |->
                    [project |-> NewProject(c), client_version |-> 0, alive |-> TRUE]]
    /\ intents = <<>> /\ log = <<>> /\ frames = 0
    /\ rcvd = [c \in Clients |-> <<>>]

EngineIdle ==
    UNCHANGED <<sessions, session, sweeper, swept, created, arc, manager_lock, session_lock, now, ticks, pc, inbox, chan, bcast,
                wire, replica, intents, log, rcvd, frames>>

\* project.apply_operation(&server_op.operation): the commit of server_op.
ApplyServerOp ==
    /\ engine.stage = "inputs"
    /\ engine' =
          IF apply_panics(engine.project, engine.server_op.operation)
          THEN [engine EXCEPT !.stage = "panicked"]
          ELSE [engine EXCEPT !.stage = "committed",
                   !.project = apply_operation(@, engine.server_op.operation)]
    /\ EngineIdle

\* project.transform_operation(&server_op, &client_op)
Transform ==
    /\ engine.stage = "committed"
    /\ engine' =
          IF transform_panics(engine.server_op, engine.client_op)
          THEN [engine EXCEPT !.stage = "panicked"]
          ELSE [stage |-> "transformed", project |-> engine.project,
                server_op |-> engine.server_op, client_op |-> engine.client_op,
                transformed |-> transform_operation(engine.server_op, engine.client_op)]
    /\ EngineIdle

\* project.apply_operation(&transformed.operation): the commit of the
\* client's operation.
ApplyTransformed ==
    /\ engine.stage = "transformed"
    /\ engine' =
          IF apply_panics(engine.project, engine.transformed.operation)
          THEN [engine EXCEPT !.stage = "panicked"]
          ELSE [engine EXCEPT !.stage = "done",
                   !.project = apply_operation(@, engine.transformed.operation)]
    /\ EngineIdle

TransformStep == ApplyServerOp \/ Transform \/ ApplyTransformed

SpecTransform == InitTransform /\ [][TransformStep]_vars

\* A client-origin AddClip or TrimClip that carries start_time <= end_time;
\* the other variants carry no interval.
ValidInterval(op) ==
    CASE op.kind = "AddClip" -> op.clip.start_time <= op.clip.end_time
      [] op.kind = "TrimClip" -> op.new_start_time <= op.new_end_time
      [] OTHER -> TRUE

\* C17 -- Valid clip intervals are preserved: when the operations submitted
\* carry start_time <= end_time, every clip of the project has start_time <=
\* end_time, also after the commit of a TrimClip transformed against a
\* concurrent TrimClip of the same clip and of an AddClip shifted past a
\* concurrent AddClip.
C17_ValidIntervalsPreserved ==
    (/\ engine.stage # "idle"
     /\ ValidInterval(engine.server_op.operation)
     /\ ValidInterval(engine.client_op.operation))
    => \A i \in 1..Len(engine.project.clips) :
          engine.project.clips[i].start_time <= engine.project.clips[i].end_time

\* C18 -- Transform keeps the origin's envelope: the operation returned by
\* transform_operation(server_op, client_op) has the client_id and the
\* client_version of client_op, for every pair of operations.
C18_TransformKeepsOriginEnvelope ==
    "transformed" \in DOMAIN engine
        => /\ engine.transformed.client_id = engine.client_op.client_id
           /\ engine.transformed.client_version = engine.client_op.client_version

\* C19 -- Client envelope base version: every OTOperation a replica sends
\* carries the server_version of the last ClientOperation the replica had
\* handled when it issued the intent, 0 when it had handled none.
C19_ClientEnvelopeBase ==
    \A i \in 1..Len(intents) :
        LET c == intents[i].client
            n == intents[i].seen
        IN intents[i].op.server_version
              = IF n = 0 THEN 0 ELSE rcvd[c][n].server_version

\* C20 -- client_version is monotonic per client: the client_version values
\* of one client's successive OTOperations are strictly increasing, however
\* its intents interleave with the messages it handles.
C20_ClientVersionMonotonic ==
    \A i, j \in 1..Len(intents) :
        (i < j /\ intents[i].client = intents[j].client)
            => intents[i].op.client_version < intents[j].op.client_version

\* C21 -- Optimistic local application matches the reducer: right after an
\* intent, the client's project is apply_operation of the operation it
\* emitted on the project it had before the intent.
C21_OptimisticMatchesReducer ==
    [][\A c \in Clients :
          (/\ Len(intents') = Len(intents) + 1
           /\ intents'[Len(intents')].client = c)
          => replica'[c].project
                = apply_operation(replica[c].project,
                                  intents'[Len(intents')].op.operation)]_vars

\* C23 -- Malformed frames are dropped: when a connection task reads a frame
\* that is neither an OTOperation nor a Ping, the session (project,
\* server_version, roster), every queue towards the clients and the commit log
\* stay as they are, and the task is still in its loop.
C23_MalformedFrameIgnored ==
    [][\A c \in Clients :
          (Handles(c) /\ Head(inbox[c]).type = "Unparsable")
          => /\ session' = session
             /\ sessions' = sessions
             /\ chan' = chan
             /\ bcast' = bcast
             /\ wire' = wire
             /\ log' = log
             /\ pc'[c] = "loop"]_vars

\* Client a has sent a frame the server cannot parse and then an edit; the
\* task has dropped the first, committed the second and a has handled the echo.
C23_Witness ==
    /\ frames = 1
    /\ Len(intents) = 1
    /\ intents[1].client = "a"
    /\ intents[1].op.client_version = 1
    /\ Len(log) = 1
    /\ Len(rcvd["a"]) = 1
    /\ pc["a"] = "loop"

\* C22 -- Atomic session creation under concurrent joins: however the
\* connection tasks of a room interleave, at most one VideoSession is ever
\* constructed, every task that has passed get_or_create_session holds that
\* one session, and once all the tasks have run their join block the roster
\* and project.collaborators contain every one of them.
C22_AtomicSessionCreation ==
    /\ created <= 1
    /\ \A c \in Clients : pc[c] \notin {"new", "start"} => (created = 1 /\ arc[c] = 1)
    /\ (\A c \in Clients : pc[c] \in {"subscribe", "loop"})
          => \A c \in Clients :
                /\ UserId(c) \in session.clients
                /\ \E i \in 1..Len(session.project.collaborators) :
                      session.project.collaborators[i].id = UserId(c)

\* Both tasks are between their join block and their subscription: they ran
\* side by side, one session was constructed and its roster has both.
C22_Witness ==
    /\ \A c \in Clients : pc[c] = "subscribe" /\ arc[c] = 1
    /\ created = 1
    /\ session.clients = {UserId(c) : c \in Clients}
    /\ Len(session.project.collaborators) = Cardinality(Clients) + 1

\* The WebSocket of connection c is served by a task that holds a session.
Connected(c) == pc[c] \in {"join", "subscribe", "loop", "leaving"}

manager_write(c) ==
    /\ pc[c] = "start"
    /\ manager_lock = "free"
    /\ manager_lock' = c
    /\ UNCHANGED <<sessions, session, sweeper, swept, created, arc, session_lock, engine,
                   now, ticks, pc, inbox, chan, bcast, wire, replica, intents, log, rcvd,
                   frames>>

\* get_or_create_session under the guard (line 160).
create_locked(c) ==
    /\ manager_lock = c
    /\ get_or_create_session(c)

\* The manager's guard goes out of scope (line 161).
manager_drop(c) ==
    /\ manager_lock = c
    /\ pc[c] = "join"
    /\ manager_lock' = "free"
    /\ UNCHANGED <<sessions, session, sweeper, swept, created, arc, session_lock, engine,
                   now, ticks, pc, inbox, chan, bcast, wire, replica, intents, log, rcvd,
                   frames>>

\* session.write().await: before the join block (line 164), before a commit
\* (line 185) and after the loop (line 219).
session_write(c) ==
    /\ session_lock = "free"
    /\ manager_lock # c
    /\ \/ pc[c] \in {"join", "leaving"}
       \/ pc[c] = "loop" /\ inbox[c] # <<>> /\ Head(inbox[c]).type = "OTOperation"
    /\ session_lock' = c
    /\ UNCHANGED <<sessions, session, sweeper, swept, created, arc, manager_lock, engine,
                   now, ticks, pc, inbox, chan, bcast, wire, replica, intents, log, rcvd,
                   frames>>

\* The join block under the guard (lines 165-171).
join_locked(c) ==
    /\ session_lock = c
    /\ JoinSession(c)

\* The commit under the guard, which is dropped at the end of the `if let`
\* (lines 186-195), or by the unwinding of a panic.
commit_locked(c) ==
    /\ session_lock = c
    /\ pc[c] = "loop"
    /\ Submit(c, Head(inbox[c]).op)
    /\ session_lock' = "free"
    /\ UNCHANGED <<sessions, sweeper, swept, created, arc, manager_lock, engine, now,
                   ticks, replica, intents, rcvd, frames>>

\* remove_client and the ClientDisconnected message under the guard (lines
\* 220-221).
leave_locked(c) ==
    /\ session_lock = c
    /\ Leave(c)

\* The session's guard goes out of scope (lines 172, 222).
session_drop(c) ==
    /\ session_lock = c
    /\ pc[c] \in {"subscribe", "done"}
    /\ session_lock' = "free"
    /\ UNCHANGED <<sessions, session, sweeper, swept, created, arc, manager_lock, engine,
                   now, ticks, pc, inbox, chan, bcast, wire, replica, intents, log, rcvd,
                   frames>>

\* session.read().await for the subscription (lines 174-177): a reader waits
\* while a writer holds the lock.
subscribe_locked(c) ==
    /\ session_lock = "free"
    /\ Subscribe(c)

\* The loop breaks between two turns, not inside a critical section.
break_unlocked(c) ==
    /\ session_lock # c
    /\ Break(c)

\* The sweeper wakes and takes cleanup_manager.write().await (lines 231-233).
sweeper_write ==
    /\ sweeper = "sleeping"
    /\ manager_lock = "free"
    /\ sweeper' = "sweeping"
    /\ manager_lock' = "sweeper"
    /\ UNCHANGED <<sessions, session, swept, created, arc, session_lock, engine, now,
                   ticks, pc, inbox, chan, bcast, wire, replica, intents, log, rcvd,
                   frames>>

\* cleanup_inactive_sessions whose blocking_read waits for the writer of the
\* session to drop its guard and then reads last_activity.
sweep_locked_Waits ==
    /\ sweeper = "sweeping"
    /\ sessions # {} => session_lock = "free"
    /\ sweeper' = "sleeping"
    /\ sessions' = IF sessions # {} /\ now - session.last_activity >= IdleHours
                   THEN {} ELSE sessions
    /\ swept' = now
    /\ manager_lock' = "free"
    /\ UNCHANGED <<session, created, arc, session_lock, engine, now, ticks, pc, inbox,
                   chan, bcast, wire, replica, intents, log, rcvd, frames>>

\* cleanup_inactive_sessions under the guard (lines 67-75, 234-235): with a
\* session in the map blocking_read panics at once, whoever holds the
\* session's lock, and the unwinding drops the manager's guard; with an empty
\* map the call returns and the guard is dropped at the end of the statement.
sweep_locked ==
    /\ sweeper = "sweeping"
    /\ sweeper' = IF sessions = {} THEN "sleeping" ELSE "panicked"
    /\ sessions' = sessions
    /\ swept' = now
    /\ manager_lock' = "free"
    /\ UNCHANGED <<session, created, arc, session_lock, engine, now, ticks, pc, inbox,
                   chan, bcast, wire, replica, intents, log, rcvd, frames>>

LockStep ==
    \/ \E c \in Clients :
          \/ Connect(c)
          \/ manager_write(c)
          \/ create_locked(c)
          \/ manager_drop(c)
          \/ session_write(c)
          \/ join_locked(c)
          \/ subscribe_locked(c)
          \/ add_clip(c, 0, 0, 0)
          \/ commit_locked(c)
          \/ break_unlocked(c)
          \/ leave_locked(c)
          \/ session_drop(c)
    \/ sweeper_write
    \/ sweep_locked

\* The runtime polls the sweeper task whenever it can run.
SpecLocks == Init /\ [][LockStep]_vars /\ WF_vars(sweep_locked)

\* The task of connection c is at manager.write().await and the guard is taken.
WaitsForManager(c) == pc[c] = "start" /\ manager_lock \notin {"free", c}

====
